---- MODULE Spec2Model ----
(***************************************************************************)
(* Model of the NochEinWort article pipeline: the `deutsch` article table, *)
(* the status claim primitive process_one_article_status, the two stage    *)
(* runners (scrape_all_new_articles, process_steps), the recommender       *)
(* (get_recommendations and its helpers) and the feedback recorder.        *)
(*                                                                         *)
(* Every store call (.execute()) is one atomic step; a process may be      *)
(* pre-empted between any two store calls.  Collaborator calls (browser    *)
(* scraper, LLM agents, Telegram) are merged with the store call that      *)
(* follows them and their outcome is an input of the step.                 *)
(***************************************************************************)
EXTENDS Integers, Sequences, FiniteSets, TLC

\* ------------------------------------------------------------------ bounds
MaxArticles == 2          \* article URLs the source site can offer
MaxProcs    == 2          \* concurrently running worker processes
MaxTime     == 1          \* last day of the clock (days since start)
MaxLimit    == 2          \* largest `limit` passed to get_recommendations
RecArticles == 4          \* rows of the tables the recommender is run on
LastDay     == 6          \* today, for the recommender run on such a table

Ids    == 1..MaxArticles  \* id and article_url of a row (one id per URL)
Procs  == 1..MaxProcs
Limits == 0..MaxLimit

\* Values the collaborators can hand back.
Topics        == {"Economy", "Health"}
category_list == {"USA", "Inland"}

None    == "None"         \* SQL NULL of a text column
Nothing == <<>>           \* SQL NULL of a timestamp column / Python None
Just(x) == <<x>>

\* Outcome classes of a collaborator call, as the runners' except clauses
\* tell them apart: "declared" is ValidationError or RuntimeError, "other"
\* is any other exception (ValueError of strptime, playwright Error, ...).
Outcomes == {"ok", "declared", "other"}

VARIABLES
    rows,       \* the table: id -> row, for the ids present
    now,        \* the clock, in days
    notified,   \* ids whose notification (with feedback buttons) was sent
    pc,         \* per process: where it stands
    article,    \* per process: the row process_one_article_status selected
    rec,        \* per process: locals of get_recommendations
    claims,     \* history: per id, successful claims per transition
    calls,      \* history: per id and collaborator, how each call ended
    returned,   \* history: ids returned by finished get_recommendations
    before      \* history: per process, `returned` when its call started

vars == <<rows, now, notified, pc, article, rec, claims, calls, returned,
          before>>

\* ------------------------------------------------------------------ rows
\* Row as the store creates it on insert: column defaults.
NewRow(category) ==
    [category |-> category, status |-> "new",
     title_de |-> None, content_de |-> None, published_date |-> Nothing,
     title_en |-> None, content_en |-> None, summary_en |-> None,
     topic |-> None, sentiment |-> None, urgency |-> None,
     feedback |-> None, feedback_at |-> Nothing,
     active |-> TRUE, recommended_at |-> Nothing]

\* select("*") of one row: the row's columns with its id.
Snapshot(id) == [id |-> id, row |-> rows[id]]

\* .update(fields).eq("id", id): no row, no effect.
UpdateById(table, id, fields) ==
    IF id \in DOMAIN table
    THEN [table EXCEPT ![id] =
            [c \in DOMAIN table[id] |->
                IF c \in DOMAIN fields THEN fields[c] ELSE table[id][c]]]
    ELSE table

NoRec == [prefs |-> <<>>, limit |-> 0, list |-> <<>>, i |-> 0, at |-> 0]

Free(p) == pc[p] = "idle"

Append1(history, id, who, how) ==
    [history EXCEPT ![id][who] = Append(@, how)]

\* ------------------------------------------- process_one_article_status
\* rows.data of .select("*").eq("status", from_status).limit(1): the store
\* may hand back any one row in from_status.
EligibleAnyStatus(from_status) == DOMAIN rows
Eligible(from_status) == {id \in DOMAIN rows : rows[id].status = from_status}

\* lock.data is non-empty: the row matched .eq("id", ..).eq("status", ..).
LockMatchesAnyStatus(row, from_status) == TRUE
LockMatchesInverted(row, from_status) == row.status # from_status
LockMatches(row, from_status) == row.status = from_status

\* First store call: the select.  No row: the call returns None and the
\* runner's loop breaks, which ends the process's run.
SelectOne(p, from_status, lock_pc) ==
    /\ IF Eligible(from_status) = {}
       THEN /\ pc' = [pc EXCEPT ![p] = "idle"]
            /\ article' = [article EXCEPT ![p] = Nothing]
       ELSE /\ \E id \in Eligible(from_status) :
                   article' = [article EXCEPT ![p] = Just(Snapshot(id))]
            /\ pc' = [pc EXCEPT ![p] = lock_pc]
    /\ UNCHANGED <<rows, now, notified, rec, claims, calls, returned, before>>

\* Second store call: the conditional update.  No row matched: the call
\* returns None (lost race) and the runner's loop breaks; otherwise it
\* returns the selected row, which the runner keeps in `article`.
LockOne(p, from_status, to_status, work_pc, stage) ==
    LET id == article[p][1].id IN
    IF LockMatches(rows[id], from_status)
    THEN /\ rows' = UpdateById(rows, id, [status |-> to_status])
         /\ pc' = [pc EXCEPT ![p] = work_pc]
         /\ claims' = [claims EXCEPT ![id][stage] = @ + 1]
         /\ UNCHANGED <<now, notified, article, rec, calls, returned, before>>
    ELSE /\ pc' = [pc EXCEPT ![p] = "idle"]
         /\ article' = [article EXCEPT ![p] = Nothing]
         /\ UNCHANGED <<rows, now, notified, rec, claims, calls, returned,
                        before>>

\* ---------------------------------------------- scrape_all_new_articles
\* except (ValidationError, RuntimeError): the failure update.
MarkFailedNever(table, id) == table
MarkFailedRequeue(table, id) == UpdateById(table, id, [status |-> "new"])
MarkFailed(table, id) == UpdateById(table, id, [status |-> "failed"])

\* The success update of the scrape stage.
SaveScrape(table, id, published_date) ==
    UpdateById(table, id,
        [title_de |-> "text", content_de |-> "text",
         published_date |-> published_date, status |-> "scrapped"])

ScrapeSelect(p) ==
    /\ Free(p) \/ pc[p] = "s_loop"
    /\ SelectOne(p, "new", "s_lock")

ScrapeLock(p) ==
    /\ pc[p] = "s_lock"
    /\ LockOne(p, "new", "scraping", "s_scrape", "scrape")

\* scrape_article and the update that follows it.  The page's date is some
\* day up to today, or today when the page shows none.  An exception the
\* except clause does not name ends the process.
ScrapeArticle(p) ==
    /\ pc[p] = "s_scrape"
    /\ LET id == article[p][1].id IN
       \E out \in Outcomes :
         /\ calls' = Append1(calls, id, "scrape", out)
         /\ \/ /\ out = "ok"
               /\ \E d \in 0..now : rows' = SaveScrape(rows, id, Just(d))
               /\ pc' = [pc EXCEPT ![p] = "s_loop"]
            \/ /\ out = "declared"
               /\ rows' = MarkFailed(rows, id)
               /\ pc' = [pc EXCEPT ![p] = "s_loop"]
            \/ /\ out = "other"
               /\ rows' = rows
               /\ pc' = [pc EXCEPT ![p] = "crashed"]
         /\ article' = [article EXCEPT ![p] =
                            IF out = "other" THEN @ ELSE Nothing]
    /\ UNCHANGED <<now, notified, rec, claims, returned, before>>

\* ---------------------------------------------------------- process_steps
save_translation_and_classification(table, id, topic) ==
    UpdateById(table, id,
        [title_en |-> "text", content_en |-> "text", summary_en |-> "text",
         topic |-> topic, sentiment |-> "text", urgency |-> "text",
         status |-> "translated"])

TranslateSelect(p) ==
    /\ Free(p) \/ pc[p] = "t_loop"
    /\ SelectOne(p, "scrapped", "t_lock")

TranslateLock(p) ==
    /\ pc[p] = "t_lock"
    /\ LockOne(p, "scrapped", "translating", "t_steps", "translate")

\* translate_step, classify_step and the update that follows them.  The
\* classifier runs only when the translator returned.
TranslateClassify(p) ==
    /\ pc[p] = "t_steps"
    /\ LET id == article[p][1].id IN
       \E t_out \in Outcomes, c_out \in Outcomes :
         LET out == IF t_out = "ok" THEN c_out ELSE t_out IN
         /\ t_out # "ok" => c_out = "ok"
         /\ calls' = IF t_out = "ok"
                     THEN Append1(Append1(calls, id, "translate", t_out),
                                  id, "classify", c_out)
                     ELSE Append1(calls, id, "translate", t_out)
         /\ \/ /\ out = "ok"
               /\ \E topic \in Topics :
                    rows' = save_translation_and_classification(rows, id, topic)
               /\ pc' = [pc EXCEPT ![p] = "t_notify"]
               /\ article' = article
            \/ /\ out = "declared"
               /\ rows' = MarkFailed(rows, id)
               /\ pc' = [pc EXCEPT ![p] = "t_loop"]
               /\ article' = [article EXCEPT ![p] = Nothing]
            \/ /\ out = "other"
               /\ rows' = rows
               /\ pc' = [pc EXCEPT ![p] = "crashed"]
               /\ article' = article
    /\ UNCHANGED <<now, notified, rec, claims, returned, before>>

\* The row re-read and send_article_notification, still inside the try
\* block: a ValidationError or RuntimeError raised here reaches the same
\* except clause as a translation failure.
Notify(p) ==
    /\ pc[p] = "t_notify"
    /\ LET id == article[p][1].id IN
       \E out \in Outcomes :
         /\ calls' = Append1(calls, id, "notify", out)
         /\ \/ /\ out = "ok"
               /\ rows' = rows
               /\ notified' = notified \cup {id}
               /\ pc' = [pc EXCEPT ![p] = "t_loop"]
            \/ /\ out = "declared"
               /\ rows' = MarkFailed(rows, id)
               /\ notified' = notified
               /\ pc' = [pc EXCEPT ![p] = "t_loop"]
            \/ /\ out = "other"
               /\ rows' = rows
               /\ notified' = notified
               /\ pc' = [pc EXCEPT ![p] = "crashed"]
         /\ article' = [article EXCEPT ![p] =
                            IF out = "other" THEN @ ELSE Nothing]
    /\ UNCHANGED <<now, rec, claims, returned, before>>

\* ------------------------------------------------------------- recommend
Max(a, b) == IF a >= b THEN a ELSE b
Min(a, b) == IF a <= b THEN a ELSE b

\* The orders in which the store may hand back the rows of a query.
Orders(S) ==
    {o \in [1..Cardinality(S) -> S] : \A i, j \in DOMAIN o : o[i] = o[j] => i = j}

\* The rows get_topic_preferences reads: feedback = 'up' and active.
LikedAlsoInactive(table) ==
    {id \in DOMAIN table : table[id].feedback = "up"}
Liked(table) ==
    {id \in DOMAIN table : table[id].feedback = "up" /\ table[id].active}

\* The loop of get_topic_preferences over the rows read, in their order.
RECURSIVE FoldPrefs(_, _)
FoldPrefs(rs, prefs) ==
    IF rs = <<>> THEN prefs
    ELSE LET row == Head(rs) IN
         IF row.topic = None \/ row.feedback_at = Nothing
         THEN FoldPrefs(Tail(rs), prefs)
         ELSE LET ts   == row.feedback_at[1]
                  pref == IF row.topic \in DOMAIN prefs THEN prefs[row.topic]
                          ELSE [count |-> 0, latest |-> ts]
                  n    == pref.count + 1
                  upd  == [count |-> n,
                           latest |-> IF n = 1 \/ ts > pref.latest
                                      THEN ts ELSE pref.latest]
              IN FoldPrefs(Tail(rs),
                     [t \in DOMAIN prefs \cup {row.topic} |->
                         IF t = row.topic THEN upd ELSE prefs[t]])

RECURSIVE FoldPrefsLastSeen(_, _)
FoldPrefsLastSeen(rs, prefs) ==
    IF rs = <<>> THEN prefs
    ELSE LET row == Head(rs) IN
         IF row.topic = None \/ row.feedback_at = Nothing
         THEN FoldPrefsLastSeen(Tail(rs), prefs)
         ELSE LET n == IF row.topic \in DOMAIN prefs
                       THEN prefs[row.topic].count + 1 ELSE 1
              IN FoldPrefsLastSeen(Tail(rs),
                     [t \in DOMAIN prefs \cup {row.topic} |->
                         IF t = row.topic
                         THEN [count |-> n, latest |-> row.feedback_at[1]]
                         ELSE prefs[t]])

get_topic_preferences_LastSeen(table, order) ==
    FoldPrefsLastSeen([i \in DOMAIN order |-> table[order[i]]], <<>>)

get_topic_preferences(table, order) ==
    FoldPrefs([i \in DOMAIN order |-> table[order[i]]], <<>>)

\* The rows get_unseen_articles reads.
UnseenAlsoRecommended(table) ==
    {id \in DOMAIN table : table[id].active /\ table[id].feedback = None}
UnseenAlsoInactive(table) ==
    {id \in DOMAIN table : table[id].recommended_at = Nothing}
get_unseen_articles(table) ==
    {id \in DOMAIN table :
        /\ table[id].active
        /\ table[id].feedback = None
        /\ table[id].recommended_at = Nothing}

\* score_article, with `today` the day of datetime.now() and date.today().
score_article_CappedCount(row, topic_prefs, today) ==
    LET liked ==
            IF row.topic # None /\ row.topic \in DOMAIN topic_prefs
            THEN LET pref == topic_prefs[row.topic]
                     days_since_like == today - pref.latest
                 IN Min(pref.count * 3, 3) + Max(0, 5 - days_since_like)
            ELSE 0
        fresh ==
            IF row.published_date # Nothing
            THEN LET days_old == today - row.published_date[1]
                 IN Max(0, 3 - days_old)
            ELSE 0
    IN liked + fresh
score_article_NoFloor(row, topic_prefs, today) ==
    LET liked ==
            IF row.topic # None /\ row.topic \in DOMAIN topic_prefs
            THEN LET pref == topic_prefs[row.topic]
                 IN pref.count * 3 + (5 - (today - pref.latest))
            ELSE 0
        fresh ==
            IF row.published_date # Nothing
            THEN 3 - (today - row.published_date[1])
            ELSE 0
    IN liked + fresh
score_article(row, topic_prefs, today) ==
    LET liked ==
            IF row.topic # None /\ row.topic \in DOMAIN topic_prefs
            THEN LET pref == topic_prefs[row.topic]
                     days_since_like == today - pref.latest
                 IN pref.count * 3 + Max(0, 5 - days_since_like)
            ELSE 0
        fresh ==
            IF row.published_date # Nothing
            THEN LET days_old == today - row.published_date[1]
                 IN Max(0, 3 - days_old)
            ELSE 0
    IN liked + fresh

\* scored.sort(key=score, reverse=True): descending and stable.
RECURSIVE InsertDescAfterEquals(_, _, _)
InsertDescAfterEquals(x, sorted, sc) ==
    IF sorted = <<>> THEN <<x>>
    ELSE IF sc[Head(sorted)] < sc[x] THEN <<x>> \o sorted
    ELSE <<Head(sorted)>> \o InsertDescAfterEquals(x, Tail(sorted), sc)

RECURSIVE InsertDesc(_, _, _)
InsertDesc(x, sorted, sc) ==
    IF sorted = <<>> THEN <<x>>
    ELSE IF sc[Head(sorted)] <= sc[x] THEN <<x>> \o sorted
    ELSE <<Head(sorted)>> \o InsertDesc(x, Tail(sorted), sc)

RECURSIVE SortDesc(_, _)
SortDesc(seq, sc) ==
    IF seq = <<>> THEN <<>>
    ELSE InsertDesc(Head(seq), SortDesc(Tail(seq), sc), sc)

\* scored[:limit]
Take(seq, limit) ==
    IF limit >= 0 THEN SubSeq(seq, 1, Min(limit, Len(seq)))
    ELSE SubSeq(seq, 1, Max(0, Len(seq) + limit))

\* Lines 189-196 of get_recommendations: score, sort, cut.
Rank(table, candidates, topic_prefs, today, limit) ==
    LET sc == [id \in DOMAIN table |->
                  score_article(table[id], topic_prefs, today)]
    IN Take(SortDesc(candidates, sc), limit)

\* One update of mark_as_recommended's loop.
MarkOneAndRetire(table, id, at) ==
    UpdateById(table, id, [recommended_at |-> Just(at), active |-> FALSE])
MarkOne(table, id, at) == UpdateById(table, id, [recommended_at |-> Just(at)])

RangeOf(seq) == {seq[i] : i \in DOMAIN seq}

\* get_recommendations up to its first return: the preference query.
GetPreferences(p) ==
    /\ Free(p)
    /\ \E order \in Orders(Liked(rows)) :
         LET topic_prefs == get_topic_preferences(rows, order) IN
         IF DOMAIN topic_prefs = {}
         THEN UNCHANGED <<pc, rec, before>>
         ELSE /\ pc' = [pc EXCEPT ![p] = "r_unseen"]
              /\ rec' = [rec EXCEPT ![p] = [NoRec EXCEPT !.prefs = topic_prefs]]
              /\ before' = [before EXCEPT ![p] = returned]
    /\ UNCHANGED <<rows, now, notified, article, claims, calls, returned>>

\* The candidate query, the ranking, and the timestamp mark_as_recommended
\* takes before its loop.  `limit` is the call's argument; nothing reads it
\* before this step.
GetUnseen(p) ==
    /\ pc[p] = "r_unseen"
    /\ \E limit \in Limits, candidates \in Orders(get_unseen_articles(rows)) :
         LET recommendations ==
                 Rank(rows, candidates, rec[p].prefs, now, limit)
         IN IF recommendations = <<>>
            THEN /\ pc' = [pc EXCEPT ![p] = "idle"]
                 /\ rec' = [rec EXCEPT ![p] = NoRec]
                 /\ before' = [before EXCEPT ![p] = {}]
            ELSE /\ pc' = [pc EXCEPT ![p] = "r_mark"]
                 /\ rec' = [rec EXCEPT ![p].limit = limit,
                                       ![p].list = recommendations,
                                       ![p].i = 1, ![p].at = now]
                 /\ before' = before
    /\ UNCHANGED <<rows, now, notified, article, claims, calls, returned>>

\* One pass of mark_as_recommended's loop; after the last one the call
\* returns rec[p].list.
MarkAsRecommended(p) ==
    /\ pc[p] = "r_mark"
    /\ LET list == rec[p].list
           i    == rec[p].i
       IN /\ rows' = MarkOne(rows, list[i], rec[p].at)
          /\ IF i < Len(list)
             THEN /\ rec' = [rec EXCEPT ![p].i = i + 1]
                  /\ UNCHANGED <<pc, returned, before>>
             ELSE /\ pc' = [pc EXCEPT ![p] = "idle"]
                  /\ rec' = [rec EXCEPT ![p] = NoRec]
                  /\ returned' = returned \cup RangeOf(list)
                  /\ before' = [before EXCEPT ![p] = {}]
    /\ UNCHANGED <<now, notified, article, claims, calls>>

\* --------------------------------------------------------------- feedback
handle_thumbs_up_NoTimestamp(table, id, at) ==
    UpdateById(table, id, [feedback |-> "up"])
handle_thumbs_up(table, id, at) ==
    UpdateById(table, id, [feedback |-> "up", feedback_at |-> Just(at)])

handle_thumbs_down(table, id, at) ==
    UpdateById(table, id,
        [feedback |-> "down", feedback_at |-> Just(at), active |-> FALSE])

\* handle_callback on a feedback button; the buttons exist for the articles
\* send_article_notification has sent.
ThumbsUp ==
    /\ \E id \in notified : rows' = handle_thumbs_up(rows, id, now)
    /\ UNCHANGED <<now, notified, pc, article, rec, claims, calls, returned,
                   before>>

ThumbsDown ==
    /\ \E id \in notified : rows' = handle_thumbs_down(rows, id, now)
    /\ UNCHANGED <<now, notified, pc, article, rec, claims, calls, returned,
                   before>>

\* -------------------------------------------------------- add_new_article
\* .upsert({article_url, category}, on_conflict="article_url"): a new row
\* with the column defaults, or the sent columns merged into the old row.
UpsertReplace(table, url, category) ==
    [id \in DOMAIN table \cup {url} |->
        IF id = url THEN NewRow(category) ELSE table[id]]
UpsertRequeue(table, url, category) ==
    IF url \in DOMAIN table
    THEN UpdateById(table, url, [category |-> category, status |-> "new"])
    ELSE [id \in DOMAIN table \cup {url} |->
             IF id = url THEN NewRow(category) ELSE table[id]]
Upsert(table, url, category) ==
    IF url \in DOMAIN table
    THEN UpdateById(table, url, [category |-> category])
    ELSE [id \in DOMAIN table \cup {url} |->
             IF id = url THEN NewRow(category) ELSE table[id]]

\* The loop over the page's links: upsert each until a row comes back with
\* status 'new'.  Gives the table afterwards and the value returned.
RECURSIVE TryLinks(_, _, _)
TryLinks(table, links, category) ==
    IF links = <<>> THEN [table |-> table, ret |-> Nothing]
    ELSE LET after == Upsert(table, Head(links), category) IN
         IF after[Head(links)].status = "new"
         THEN [table |-> after, ret |-> Just(Head(links))]
         ELSE TryLinks(after, Tail(links), category)

\* The links of a category page: distinct (the `seen` set) and not empty
\* (count = 0 raises before any store call).
Pages == UNION {Orders(S) : S \in SUBSET Ids \ {{}}}

\* One run of add_new_article, with random.choice drawing from `categories`.
add_new_article(categories) ==
    /\ \E category \in categories, links \in Pages :
         rows' = TryLinks(rows, links, category).table
    /\ UNCHANGED <<now, notified, pc, article, rec, claims, calls, returned,
                   before>>

\* ------------------------------------------------------------------ clock
Tick ==
    /\ now < MaxTime
    /\ now' = now + 1
    /\ UNCHANGED <<rows, notified, pc, article, rec, claims, calls, returned,
                   before>>

\* ------------------------------------------------------------------ system
\* The categories random.choice draws in Spec.  The category column is
\* written by add_new_article alone and read by no store query, so Spec
\* keeps to one category; what the upsert does to the column of a row that
\* exists shows only where `categories` has two members.
Drawn == {"USA"}

Init ==
    /\ rows = <<>>
    /\ now = 0
    /\ notified = {}
    /\ pc = [p \in Procs |-> "idle"]
    /\ article = [p \in Procs |-> Nothing]
    /\ rec = [p \in Procs |-> NoRec]
    /\ claims = [id \in Ids |-> [scrape |-> 0, translate |-> 0]]
    /\ calls = [id \in Ids |-> [scrape |-> <<>>, translate |-> <<>>,
                                classify |-> <<>>, notify |-> <<>>]]
    /\ returned = {}
    /\ before = [p \in Procs |-> {}]

Next ==
    \/ \E p \in Procs : ScrapeSelect(p)
    \/ \E p \in Procs : ScrapeLock(p)
    \/ \E p \in Procs : ScrapeArticle(p)
    \/ \E p \in Procs : TranslateSelect(p)
    \/ \E p \in Procs : TranslateLock(p)
    \/ \E p \in Procs : TranslateClassify(p)
    \/ \E p \in Procs : Notify(p)
    \/ \E p \in Procs : GetPreferences(p)
    \/ \E p \in Procs : GetUnseen(p)
    \/ \E p \in Procs : MarkAsRecommended(p)
    \/ ThumbsUp
    \/ ThumbsDown
    \/ add_new_article(Drawn)
    \/ Tick

Spec == Init /\ [][Next]_vars

\* ----------------------------------------------- discovery and scraping
\* add_new_article drawing from the whole category_list, with the scrape
\* runners that take the rows it finds out of 'new'.
NextDiscovery ==
    \/ add_new_article(category_list)
    \/ \E p \in Procs : ScrapeSelect(p)
    \/ \E p \in Procs : ScrapeLock(p)
    \/ \E p \in Procs : ScrapeArticle(p)

SpecDiscovery == Init /\ [][NextDiscovery]_vars

\* ------------------------------------------- the recommender on a table
\* Tables as the pipeline and the feedback recorder leave them, for runs of
\* get_recommendations alone.  Rows: translated and notified, published on
\* one of the last days; the same and liked on some day; liked after a
\* thumbs-down (feedback up, inactive); just discovered.
RecIds == 1..RecArticles

TranslatedRow(topic, published) ==
    [NewRow("USA") EXCEPT
        !.status = "translated",
        !.title_de = "text", !.content_de = "text",
        !.published_date = Just(published),
        !.title_en = "text", !.content_en = "text", !.summary_en = "text",
        !.topic = topic, !.sentiment = "text", !.urgency = "text"]

UnseenRows ==
    {TranslatedRow(topic, d) : topic \in Topics, d \in (LastDay - 3)..LastDay}
        \cup {NewRow("USA")}

LikedRows ==
    {[TranslatedRow(topic, 0) EXCEPT
         !.feedback = "up", !.feedback_at = Just(d)] :
       topic \in Topics, d \in 0..LastDay}

RelikedRows ==
    {[TranslatedRow(topic, 0) EXCEPT
         !.feedback = "up", !.feedback_at = Just(LastDay), !.active = FALSE] :
       topic \in Topics}

\* The store hands rows back in any order, so it is enough that the liked
\* row every non-empty preference map needs comes first.
InitRec ==
    /\ \E first \in LikedRows,
          second \in LikedRows \cup RelikedRows \cup UnseenRows,
          others \in [3..RecArticles -> UnseenRows] :
          rows = [id \in RecIds |->
                     IF id = 1 THEN first
                     ELSE IF id = 2 THEN second ELSE others[id]]
    /\ now = LastDay
    /\ notified = {}
    /\ pc = [p \in Procs |-> "idle"]
    /\ article = [p \in Procs |-> Nothing]
    /\ rec = [p \in Procs |-> NoRec]
    /\ claims = [id \in Ids |-> [scrape |-> 0, translate |-> 0]]
    /\ calls = [id \in Ids |-> [scrape |-> <<>>, translate |-> <<>>,
                                classify |-> <<>>, notify |-> <<>>]]
    /\ returned = {}
    /\ before = [p \in Procs |-> {}]

\* Calls of get_recommendations one after the other.
NextRec ==
    \/ GetPreferences(1)
    \/ GetUnseen(1)
    \/ MarkAsRecommended(1)

SpecRec == InitRec /\ [][NextRec]_vars

\* ------------------------------------ the recommender on dates ahead
\* The published date is the date the page shows after "Stand:", a date of
\* the site's time zone, and score_article takes it from date.today() of
\* the host: around midnight the page's date is the day after the host's.
\* Tables with one liked article and articles published today or on the
\* day after.
AheadRows ==
    {TranslatedRow(topic, d) : topic \in Topics, d \in LastDay..(LastDay + 1)}

InitAhead ==
    /\ \E first \in LikedRows, others \in [2..RecArticles -> AheadRows] :
          rows = [id \in RecIds |-> IF id = 1 THEN first ELSE others[id]]
    /\ now = LastDay
    /\ notified = {}
    /\ pc = [p \in Procs |-> "idle"]
    /\ article = [p \in Procs |-> Nothing]
    /\ rec = [p \in Procs |-> NoRec]
    /\ claims = [id \in Ids |-> [scrape |-> 0, translate |-> 0]]
    /\ calls = [id \in Ids |-> [scrape |-> <<>>, translate |-> <<>>,
                                classify |-> <<>>, notify |-> <<>>]]
    /\ returned = {}
    /\ before = [p \in Procs |-> {}]

SpecAhead == InitAhead /\ [][NextRec]_vars

\* ------------------------------------- the runners on a fixed set of articles
\* A finite set of discovered articles and one scrape runner per process,
\* all started; nothing is discovered later.  No worker stops: every
\* collaborator call returns or raises an error the runner catches.  The
\* translate runners are started once the scrape runners have ended.
InitDrain ==
    /\ \E urls \in SUBSET Ids \ {{}} : rows = [id \in urls |-> NewRow("USA")]
    /\ now = 0
    /\ notified = {}
    /\ pc = [p \in Procs |-> "s_loop"]
    /\ article = [p \in Procs |-> Nothing]
    /\ rec = [p \in Procs |-> NoRec]
    /\ claims = [id \in Ids |-> [scrape |-> 0, translate |-> 0]]
    /\ calls = [id \in Ids |-> [scrape |-> <<>>, translate |-> <<>>,
                                classify |-> <<>>, notify |-> <<>>]]
    /\ returned = {}
    /\ before = [p \in Procs |-> {}]

ScrapeRun(p) ==
    \/ pc[p] = "s_loop" /\ ScrapeSelect(p)
    \/ ScrapeLock(p)
    \/ ScrapeArticle(p) /\ pc'[p] # "crashed"

TranslateRun(p) ==
    \/ pc[p] = "t_loop" /\ TranslateSelect(p)
    \/ TranslateLock(p)
    \/ TranslateClassify(p) /\ pc'[p] # "crashed"
    \/ Notify(p) /\ pc'[p] # "crashed"

\* python translate.py on every worker, after the scrape runners ended.
StartTranslators ==
    /\ \A p \in Procs : pc[p] = "idle"
    /\ \A id \in Ids : claims[id].translate = 0
    /\ \E id \in DOMAIN rows : rows[id].status = "scrapped"
    /\ pc' = [p \in Procs |-> "t_loop"]
    /\ UNCHANGED <<rows, now, notified, article, rec, claims, calls, returned,
                   before>>

NextDrain ==
    \/ \E p \in Procs : ScrapeRun(p)
    \/ \E p \in Procs : TranslateRun(p)
    \/ StartTranslators

\* Fair scheduling: a runner that can take a step is not held back for
\* ever.
SpecDrain ==
    /\ InitDrain
    /\ [][NextDrain]_vars
    /\ \A p \in Procs : WF_vars(ScrapeRun(p)) /\ WF_vars(TranslateRun(p))
    /\ WF_vars(StartTranslators)

\* ==================================================================
\* Properties
\* ==================================================================
Held(p) == article[p][1].id

ScrapePcs    == {"s_lock", "s_scrape"}
TranslatePcs == {"t_lock", "t_steps", "t_notify"}

\* C1: at-most-one claimant.  However many workers interleave their calls
\* of process_one_article_status(S, S'), no article is returned as claimed
\* to more than one call for the same transition.
C1_AtMostOneClaimant ==
    \A id \in Ids : claims[id].scrape <= 1 /\ claims[id].translate <= 1

\* Two calls hold the same selected row: one has claimed it, the other is
\* about to run its conditional update.
C1_Witness ==
    \E p, q \in Procs :
        /\ pc[p] = "s_scrape" /\ pc[q] = "s_lock"
        /\ Held(p) = Held(q)
        /\ claims[Held(p)].scrape = 1

\* C2: the state graph.  In every step an article's status changes only
\* along new -> scraping -> scrapped -> translating -> translated,
\* scraping -> failed or translating -> failed; translated and failed are
\* never left.  ('scrapped' is the stored spelling of the scraped state.)
StatusEdges ==
    {<<"new", "scraping">>, <<"scraping", "scrapped">>,
     <<"scrapped", "translating">>, <<"translating", "translated">>,
     <<"scraping", "failed">>, <<"translating", "failed">>}

C2_StateGraph ==
    [][\A id \in DOMAIN rows :
          rows'[id].status # rows[id].status =>
              <<rows[id].status, rows'[id].status>> \in StatusEdges]_vars

\* C3: exactly-once stage processing.  Each collaborator is invoked at most
\* once per article, and a step of a scrape runner changes only rows that
\* are in new or scraping, a step of a translate/classify runner only rows
\* that are in scrapped, translating or translated.
C3_ExactlyOnceStage ==
    /\ [](\A id \in Ids :
            /\ Len(calls[id].scrape) <= 1
            /\ Len(calls[id].translate) <= 1
            /\ Len(calls[id].classify) <= 1)
    /\ [][\A p \in Procs : \A id \in DOMAIN rows :
            (pc'[p] # pc[p] /\ rows'[id] # rows[id]) =>
                /\ pc[p] \in ScrapePcs =>
                       rows[id].status \in {"new", "scraping"}
                /\ pc[p] \in TranslatePcs =>
                       rows[id].status \in
                           {"scrapped", "translating", "translated"}]_vars

\* A scrape runner and a translate runner are at work at the same time,
\* each on the article it claimed; the translate runner's article has been
\* through the scraper once.
C3_Witness ==
    \E p, q \in Procs :
        /\ pc[p] = "s_scrape" /\ pc[q] = "t_steps"
        /\ Held(p) # Held(q)
        /\ calls[Held(q)].scrape = <<"ok">>

\* The article has left new; it has left scrapped (a row that failed out of
\* scraping has no raw title).
LeftNew(id) == id \in DOMAIN rows /\ rows[id].status # "new"
LeftScrapped(id) ==
    /\ id \in DOMAIN rows
    /\ \/ rows[id].status \in {"translating", "translated"}
       \/ rows[id].status = "failed" /\ rows[id].title_de # None

\* C4: no lost claim.  An article has left state S exactly when one call
\* returned it, and a call that gives up on the row it selected (lost race)
\* does so only when that row was returned to another call: concurrent
\* calls on an eligible article never all return no-work.
C4_NoLostClaim ==
    /\ [](\A id \in Ids :
            /\ claims[id].scrape = (IF LeftNew(id) THEN 1 ELSE 0)
            /\ claims[id].translate = (IF LeftScrapped(id) THEN 1 ELSE 0))
    /\ [][\A p \in Procs :
            /\ (pc[p] = "s_lock" /\ pc'[p] = "idle") =>
                   claims[Held(p)].scrape = 1
            /\ (pc[p] = "t_lock" /\ pc'[p] = "idle") =>
                   claims[Held(p)].translate = 1]_vars

\* A call is about to lose the race for the row it selected: another call
\* was given that row.
C4_Witness ==
    \E p \in Procs :
        /\ pc[p] = "t_lock"
        /\ rows[Held(p)].status # "scrapped"
        /\ claims[Held(p)].translate = 1

\* C5: no partial output on failure.  A failed article has none of the
\* translation and classification fields set, and one that failed out of
\* scraping has no raw title, raw content or published date either.
C5_NoPartialOutput ==
    \A id \in DOMAIN rows :
        rows[id].status = "failed" =>
            /\ rows[id].title_en = None
            /\ rows[id].content_en = None
            /\ rows[id].summary_en = None
            /\ rows[id].topic = None
            /\ rows[id].sentiment = None
            /\ rows[id].urgency = None
            /\ calls[id].scrape # <<"ok">> =>
                   /\ rows[id].title_de = None
                   /\ rows[id].content_de = None
                   /\ rows[id].published_date = Nothing

\* How the scrape, translate and classify calls on an article ended.
StageOutcomesIn(history, id) ==
    RangeOf(history[id].scrape) \cup RangeOf(history[id].translate)
        \cup RangeOf(history[id].classify)
StageOutcomes(id) == StageOutcomesIn(calls, id)

\* C6, as claimed: whatever the failure of the scrape, translate or
\* classify collaborator, the article ends in failed and the failure ends
\* no runner.
C6_AnyFailureRecovered ==
    /\ \A id \in DOMAIN rows :
          StageOutcomes(id) # {} /\ StageOutcomes(id) # {"ok"} =>
              rows[id].status = "failed"
    /\ \A p \in Procs :
          pc[p] = "crashed" => StageOutcomes(Held(p)) = {"ok"}

\* C6, amended: a declared failure (ValidationError or RuntimeError) of the
\* scrape, translate or classify collaborator leaves the article in failed,
\* and the runner is back at the head of its loop.
C6_DeclaredFailureRecovered ==
    /\ [](\A id \in DOMAIN rows :
            "declared" \in StageOutcomes(id) => rows[id].status = "failed")
    /\ [][\A p \in Procs :
            (pc[p] \in {"s_scrape", "t_steps"} /\ pc'[p] # pc[p]
               /\ "declared" \in StageOutcomesIn(calls', Held(p))) =>
                pc'[p] = (IF pc[p] = "s_scrape" THEN "s_loop" ELSE "t_loop")]_vars

\* A classification failed with a declared error and the runner is back at
\* the head of its loop, the article failed.
C6_Witness ==
    \E p \in Procs, id \in DOMAIN rows :
        /\ pc[p] = "t_loop"
        /\ calls[id].classify = <<"declared">>
        /\ rows[id].status = "failed"

\* C7: a successful process_one_article_status(S, S') returns the
\* pre-image: the row it returns is the stored row as it was immediately
\* before the status update (status S included), and the stored status is
\* S' afterwards.
C7_ReturnsPreImage ==
    [][\A p \in Procs :
          (pc[p] \in {"s_lock", "t_lock"} /\ pc'[p] \in {"s_scrape", "t_steps"}) =>
              /\ article'[p][1].row = rows[Held(p)]
              /\ rows'[Held(p)].status =
                     (IF pc[p] = "s_lock" THEN "scraping" ELSE "translating")]_vars

InState(status) == {id \in DOMAIN rows : rows[id].status = status}

\* C8: process_one_article_status(S, S') called when no article is in
\* state S returns None (the runner's loop ends) and changes no row.
C8_EmptyReturnsNone ==
    [][\A p \in Procs :
          /\ (pc[p] = "s_loop" /\ pc'[p] # pc[p] /\ InState("new") = {}) =>
                 pc'[p] = "idle" /\ article'[p] = Nothing /\ rows' = rows
          /\ (pc[p] = "t_loop" /\ pc'[p] # pc[p] /\ InState("scrapped") = {}) =>
                 pc'[p] = "idle" /\ article'[p] = Nothing /\ rows' = rows]_vars

\* A runner is at its claim with nothing in its from-state, while rows in
\* other states exist.
C8_Witness ==
    \E p \in Procs :
        /\ pc[p] = "s_loop"
        /\ InState("new") = {}
        /\ DOMAIN rows # {}

\* C9: no article is returned by two get_recommendations calls of which
\* one started after the other had returned.
C9_NeverReturnedTwice ==
    \A p \in Procs :
        pc[p] = "r_mark" => RangeOf(rec[p].list) \cap before[p] = {}

\* A call has started after an earlier call returned an article that is
\* still active and without feedback.
C9_Witness ==
    \E p \in Procs :
        /\ pc[p] = "r_unseen"
        /\ \E id \in before[p] : rows[id].active /\ rows[id].feedback = None

\* C10, as claimed: once an article's recommended_at is set, no step
\* changes or unsets it, overlapping get_recommendations calls included.
C10_WrittenOnce ==
    [][\A id \in DOMAIN rows :
          rows[id].recommended_at # Nothing =>
              rows'[id].recommended_at = rows[id].recommended_at]_vars

\* C10, amended: once set, recommended_at is never unset, and only a
\* get_recommendations call that started before the article was first
\* returned (an overlapping call) overwrites it.
C10_NeverCleared ==
    [][\A id \in DOMAIN rows :
          rows[id].recommended_at # Nothing =>
              /\ rows'[id].recommended_at # Nothing
              /\ rows'[id].recommended_at # rows[id].recommended_at =>
                     \E p \in Procs :
                         /\ pc[p] = "r_mark"
                         /\ rec[p].list[rec[p].i] = id
                         /\ id \notin before[p]]_vars

\* A call is about to mark an article that an overlapping call has marked
\* with an earlier timestamp.
C10_Witness ==
    \E p \in Procs :
        /\ pc[p] = "r_mark"
        /\ LET id == rec[p].list[rec[p].i] IN
           /\ rows[id].recommended_at # Nothing
           /\ rows[id].recommended_at # Just(rec[p].at)

\* C11: an article with active = false is never fetched as a candidate (and
\* so never scored or returned) and never becomes active again, whatever
\* happens after its handle_thumbs_down, a later handle_thumbs_up included;
\* so no get_recommendations call that starts after the thumbs-down returns
\* it.
C11_InactiveNeverFetched ==
    [][\A id \in DOMAIN rows :
          ~rows[id].active =>
              /\ ~rows'[id].active
              /\ \A p \in Procs :
                    (pc[p] = "r_unseen" /\ pc'[p] # pc[p]) =>
                        id \notin RangeOf(rec'[p].list)]_vars

\* A call is about to fetch its candidates while an article that was
\* thumbed down and then thumbed up has never been recommended.
C11_Witness ==
    \E p \in Procs, id \in DOMAIN rows :
        /\ pc[p] = "r_unseen"
        /\ ~rows[id].active
        /\ rows[id].feedback = "up"
        /\ rows[id].recommended_at = Nothing

\* The eligible articles of the stored table, and the score the call of
\* process p gives an article.
EligibleArticles ==
    {id \in DOMAIN rows :
        /\ rows[id].active
        /\ rows[id].feedback = None
        /\ rows[id].recommended_at = Nothing}

ScoreOf(p, id) == score_article(rows[id], rec[p].prefs, now)

Pos(seq, x) == CHOOSE k \in DOMAIN seq : seq[k] = x

\* `list` is what C12 asks of a call with argument `limit`; `candidates`
\* is the order in which the store returned the eligible articles.
CutOf(p, list, limit) ==
    /\ Len(list) = Min(limit, Cardinality(EligibleArticles))
    /\ RangeOf(list) \subseteq EligibleArticles
    /\ \A i, j \in DOMAIN list :
          /\ list[i] = list[j] => i = j
          /\ i < j => ScoreOf(p, list[i]) >= ScoreOf(p, list[j])
    /\ \A a \in RangeOf(list), b \in EligibleArticles \ RangeOf(list) :
          ScoreOf(p, a) >= ScoreOf(p, b)

KeepsStoreOrder(p, list, candidates) ==
    \A i, j \in DOMAIN list :
        (i < j /\ ScoreOf(p, list[i]) = ScoreOf(p, list[j])) =>
            Pos(candidates, list[i]) < Pos(candidates, list[j])

FormulaScore(row, prefs, today) ==
    LET days_since_like == today - prefs[row.topic].latest
        days_old == today - row.published_date[1]
    IN (IF row.topic \in DOMAIN prefs
        THEN 3 * prefs[row.topic].count
               + (IF days_since_like >= 5 THEN 0 ELSE 5 - days_since_like)
        ELSE 0)
       + (IF row.published_date = Nothing THEN 0
          ELSE IF days_old >= 3 THEN 0 ELSE 3 - days_old)

\* C13: score_article equals the formula for every article and preference
\* map: 3*count + max(0, 5 - days_since_like) when the article's topic is
\* in the preferences (0 otherwise), plus max(0, 3 - days_old); in the
\* worked example (Economy liked twice, last one day ago) an Economy
\* article published today scores 13 and one of an unliked topic 3.
C13_ScoreFormula ==
    \A p \in Procs :
        pc[p] = "r_unseen" =>
            \A id \in DOMAIN rows :
                /\ ScoreOf(p, id) = FormulaScore(rows[id], rec[p].prefs, now)
                /\ (/\ rec[p].prefs = [t \in {"Economy"} |->
                                          [count |-> 2, latest |-> now - 1]]
                    /\ rows[id].published_date = Just(now)) =>
                       ScoreOf(p, id) =
                           (IF rows[id].topic = "Economy" THEN 13 ELSE 3)

\* The worked example: Economy liked twice, the last time a day ago; an
\* Economy article and a Health article, both published today.
C13_Witness ==
    \E p \in Procs :
        /\ pc[p] = "r_unseen"
        /\ rec[p].prefs = [t \in {"Economy"} |->
                              [count |-> 2, latest |-> now - 1]]
        /\ \E a, b \in EligibleArticles :
              /\ rows[a].topic = "Economy" /\ rows[a].published_date = Just(now)
              /\ rows[b].topic = "Health" /\ rows[b].published_date = Just(now)

\* The preference map with the count of `topic` raised by k, its latest
\* timestamp kept.
RaiseCount(prefs, topic, k) ==
    [prefs EXCEPT ![topic].count = @ + k]

\* C14: scoring is strictly monotonic in the like count.  For an article
\* whose topic is in the preference map, raising that topic's count, with
\* its latest timestamp, the article and the time fixed, strictly
\* increases score_article's result.
C14_StrictlyMonotonicInCount ==
    \A p \in Procs :
        pc[p] = "r_unseen" =>
            \A id \in DOMAIN rows :
                rows[id].topic \in DOMAIN rec[p].prefs =>
                    \A k \in 1..RecArticles :
                        score_article(rows[id],
                                      RaiseCount(rec[p].prefs, rows[id].topic, k),
                                      now)
                            > ScoreOf(p, id)

\* A call is about to score an eligible article whose topic was liked
\* twice, long enough ago for the recency term to be 0.
C14_Witness ==
    \E p \in Procs :
        /\ pc[p] = "r_unseen"
        /\ \E id \in EligibleArticles :
              /\ rows[id].topic \in DOMAIN rec[p].prefs
              /\ rec[p].prefs[rows[id].topic].count = 2
              /\ now - rec[p].prefs[rows[id].topic].latest >= 5

\* Some active article carries feedback = up with a topic and a timestamp.
HasLike ==
    \E id \in DOMAIN rows :
        /\ rows[id].active
        /\ rows[id].feedback = "up"
        /\ rows[id].topic # None
        /\ rows[id].feedback_at # Nothing

\* C15: get_recommendations with an empty preference map returns an empty
\* list and writes nothing, even when eligible articles exist: a call goes
\* past its first return only when some active article is liked, every
\* call past that return holds a non-empty map, and recommended_at is
\* written only by calls that are in mark_as_recommended.
C15_EmptyPreferencesReturnEmpty ==
    /\ [](\A p \in Procs :
            pc[p] \in {"r_unseen", "r_mark"} => DOMAIN rec[p].prefs # {})
    /\ [][/\ \A p \in Procs :
               (pc[p] = "idle" /\ pc'[p] # "idle") =>
                   \/ pc'[p] \in {"s_lock", "t_lock"}
                   \/ HasLike /\ rows' = rows
          /\ \A id \in DOMAIN rows :
               rows'[id].recommended_at # rows[id].recommended_at =>
                   \E p \in Procs : pc[p] = "r_mark"]_vars

\* No active article is liked (one was liked after a thumbs-down), an
\* eligible article exists, and a process is free to call.
C15_Witness ==
    /\ ~HasLike
    /\ \E id \in DOMAIN rows : rows[id].feedback = "up"
    /\ EligibleArticles # {}
    /\ \E p \in Procs : pc[p] = "idle"

\* The articles that count for a topic, and the largest member of a set
\* of days.
Counted(topic) ==
    {id \in DOMAIN rows :
        /\ rows[id].feedback = "up"
        /\ rows[id].active
        /\ rows[id].topic = topic
        /\ rows[id].feedback_at # Nothing}

MaxOf(S) == CHOOSE m \in S : \A x \in S : m >= x

CountedPreferences ==
    [topic \in {t \in Topics : Counted(t) # {}} |->
        [count  |-> Cardinality(Counted(topic)),
         latest |-> MaxOf({rows[id].feedback_at[1] : id \in Counted(topic)})]]

\* C16: get_topic_preferences returns, for each topic, the number of
\* articles with feedback = up, active = true, that topic and a feedback
\* timestamp, and the latest of their timestamps; topics without such an
\* article are absent; the result is the same for every order in which
\* the store returns the rows.
C16_PreferencesAggregate ==
    /\ [](\A order \in Orders(Liked(rows)) :
            get_topic_preferences(rows, order) = CountedPreferences)
    /\ [][\A p \in Procs :
            (pc[p] = "idle" /\ pc'[p] = "r_unseen") =>
                rec'[p].prefs = CountedPreferences]_vars

\* A call has built its map from two likes of one topic on different days;
\* the other topic, which an eligible article has, is absent from it.
C16_Witness ==
    \E p \in Procs, a, b \in DOMAIN rows, c \in EligibleArticles :
        /\ pc[p] = "r_unseen"
        /\ a \in Counted(rows[a].topic) /\ b \in Counted(rows[a].topic)
        /\ rows[a].feedback_at[1] < rows[b].feedback_at[1]
        /\ rows[c].topic \in Topics \ {rows[a].topic}
        /\ DOMAIN rec[p].prefs = {rows[a].topic}

\* The like count get_topic_preferences reports for a topic on a table.
ReportedCount(table, topic) ==
    LET prefs == get_topic_preferences(
                     table, CHOOSE order \in Orders(Liked(table)) : TRUE)
    IN IF topic \in DOMAIN prefs THEN prefs[topic].count ELSE 0

\* C17, as claimed: across all operations the like count that
\* get_topic_preferences reports for a topic never decreases.
C17_CountNeverDecreases ==
    [][\A topic \in Topics :
          ReportedCount(rows', topic) >= ReportedCount(rows, topic)]_vars

\* C17, amended: the reported like count of a topic decreases only in a
\* handle_thumbs_down on an active liked article of that topic (last
\* writer wins), and then by exactly one; no other operation lowers it.
C17_CountDecreasesOnlyByThumbsDown ==
    [][rows' # rows =>
          \A topic \in Topics :
              \/ ReportedCount(rows', topic) >= ReportedCount(rows, topic)
              \/ /\ ReportedCount(rows', topic) = ReportedCount(rows, topic) - 1
                 /\ \E id \in Counted(topic) :
                       /\ rows'[id].feedback = "down"
                       /\ ~rows'[id].active
                       /\ \A other \in DOMAIN rows \ {id} :
                             rows'[other] = rows[other]]_vars

\* A call was told a count of 1 for a topic whose only liked article has
\* since been thumbed down: the next call is told 0.
C17_Witness ==
    \E p \in Procs, id \in DOMAIN rows :
        /\ pc[p] = "r_unseen"
        /\ rows[id].feedback = "down"
        /\ rows[id].topic \in DOMAIN rec[p].prefs
        /\ rec[p].prefs[rows[id].topic].count = 1
        /\ ReportedCount(rows, rows[id].topic) = 0

\* C18: in every reachable state and for every article, feedback_at is
\* set if and only if feedback is set.
C18_FeedbackAtIffFeedback ==
    \A id \in DOMAIN rows :
        rows[id].feedback_at # Nothing <=> rows[id].feedback # None

\* One article carries a thumbs-up given on the last day over an earlier
\* thumbs-down; another carries no feedback.
C18_Witness ==
    \E a, b \in DOMAIN rows :
        /\ rows[a].feedback = "up" /\ ~rows[a].active
        /\ rows[a].feedback_at = Just(MaxTime)
        /\ rows[b].feedback = None /\ rows[b].feedback_at = Nothing

\* C19: discovery of an already-stored article URL is a no-op.  A run of
\* add_new_article (the steps in which no process moves) keeps every
\* stored row, field by field: status, category, scraped text, feedback
\* and recommendation fields.
C19_RediscoveryIsNoOp ==
    [][pc' = pc =>
          \A id \in DOMAIN rows :
              id \in DOMAIN rows' /\ rows'[id] = rows[id]]_vars

\* C20: a stage runner's loop ends only on the queue-drained condition.
\* When a scrape runner (translate/classify runner) leaves its loop
\* because its claim returned nothing, no article is in state new
\* (scrapped), also when other runners are claiming concurrently.
C20_LoopEndsOnlyWhenDrained ==
    [][\A p \in Procs :
          /\ (pc[p] \in {"s_loop", "s_lock"} /\ pc'[p] = "idle") =>
                 InState("new") = {}
          /\ (pc[p] \in {"t_loop", "t_lock"} /\ pc'[p] = "idle") =>
                 InState("scrapped") = {}]_vars

\* C21: orphaned in-progress articles are never requeued.  The status of
\* an article in scraping or translating changes only in a step of the
\* worker that claimed it; when that worker has stopped after the claim
\* and before finalizing, it stays stopped and the article keeps its
\* status, whatever the other workers and operations do.
C21_OrphansStay ==
    [][/\ \A id \in DOMAIN rows :
             (rows[id].status \in {"scraping", "translating"}
                /\ rows'[id].status # rows[id].status) =>
                 \E p \in Procs :
                     /\ pc[p] \in {"s_scrape", "t_steps"}
                     /\ pc'[p] # pc[p]
                     /\ Held(p) = id
       /\ \A p \in Procs :
             pc[p] = "crashed" =>
                 /\ pc'[p] = "crashed"
                 /\ article'[p] = article[p]
                 /\ rows[Held(p)].status \in {"scraping", "translating"} =>
                        rows'[Held(p)].status = rows[Held(p)].status]_vars

\* A worker has stopped on the article it claimed for scraping, while
\* another worker has scraped a second article and is back at the head of
\* its loop.
C21_Witness ==
    \E p, q \in Procs :
        /\ pc[p] = "crashed"
        /\ rows[Held(p)].status = "scraping"
        /\ pc[q] = "s_loop"
        /\ \E id \in DOMAIN rows : id # Held(p) /\ rows[id].status = "scrapped"

\* C22: get_recommendations changes the store only by setting
\* recommended_at on exactly the articles it returns: a step of the call
\* changes at most the recommended_at of an article of its list, every
\* article of the list has recommended_at set when the call ends, and no
\* other field and no other article is modified.
C22_MarksOnlyWhatItReturns ==
    [][\A p \in Procs :
          (pc[p] \in {"idle", "r_unseen", "r_mark"}
             /\ (pc'[p] # pc[p] \/ rec'[p] # rec[p])) =>
              /\ DOMAIN rows' = DOMAIN rows
              /\ \A id \in DOMAIN rows :
                    \/ rows'[id] = rows[id]
                    \/ /\ pc[p] = "r_mark"
                       /\ id \in RangeOf(rec[p].list)
                       /\ rows'[id] = [rows[id] EXCEPT
                              !.recommended_at = rows'[id].recommended_at]
              /\ (pc[p] = "r_mark" /\ pc'[p] = "idle") =>
                    \A id \in RangeOf(rec[p].list) :
                        rows'[id].recommended_at # Nothing]_vars

\* A call is about to mark the second of the two articles it returns,
\* while a third eligible article stays out of its list.
C22_Witness ==
    \E p \in Procs :
        /\ pc[p] = "r_mark"
        /\ Len(rec[p].list) = 2
        /\ rec[p].i = 2
        /\ EligibleArticles \ RangeOf(rec[p].list) # {}

\* The two time-based terms of score_article for an article: the score
\* without a published date less the frequency term, and the score under
\* an empty preference map.
RecencyTerm(p, id) ==
    score_article([rows[id] EXCEPT !.published_date = Nothing],
                  rec[p].prefs, now)
        - (IF rows[id].topic \in DOMAIN rec[p].prefs
           THEN 3 * rec[p].prefs[rows[id].topic].count ELSE 0)

FreshnessTerm(id) == score_article(rows[id], <<>>, now)

\* C23: the time-based score terms are bounded above as the docstring of
\* score_article states: for every preference timestamp and published
\* date, dates later than the current day included, the topic-recency
\* term lies in 0..5 and the article-freshness term in 0..3.
C23_TermsBounded ==
    \A p \in Procs :
        pc[p] = "r_unseen" =>
            \A id \in DOMAIN rows :
                /\ RecencyTerm(p, id) \in 0..5
                /\ FreshnessTerm(id) \in 0..3

\* C24: add_new_article returns a row only when this call inserted it.
\* For every category and every page of links, the URL of the row it
\* returns was not in the store before the call; when every URL it tries
\* is stored already, whatever the rows' statuses, it returns None.
C24_ReturnsOnlyInserted ==
    \A category \in category_list, links \in Pages :
        LET ret == TryLinks(rows, links, category).ret
        IN ret # Nothing => ret[1] \notin DOMAIN rows

\* C25: every article returned by get_recommendations has completed the
\* pipeline: when the call takes it into the list it returns, its status
\* is translated and it has an English title and a topic; articles in
\* new, scraping, scrapped, translating or failed are never recommended.
C25_OnlyTranslatedRecommended ==
    [][\A p \in Procs :
          (pc[p] = "r_unseen" /\ pc'[p] = "r_mark") =>
              \A id \in RangeOf(rec'[p].list) :
                  /\ rows[id].status = "translated"
                  /\ rows[id].title_en # None
                  /\ rows[id].topic # None]_vars

\* Every runner has ended; the translate runners have been started.
AllEnded == \A p \in Procs : pc[p] = "idle"

TranslatorsStarted == \E id \in Ids : claims[id].translate > 0

\* C26: eventual drain.  With a finite set of articles, no worker crash
\* and every collaborator call returning, every runner ends under fair
\* scheduling; once the scrape runners have all ended no article is in
\* new or scraping, and once the translate runners started after them
\* have all ended none is in scrapped or translating either.
C26_EventualDrain ==
    /\ [](AllEnded =>
            /\ InState("new") = {} /\ InState("scraping") = {}
            /\ TranslatorsStarted =>
                   InState("scrapped") = {} /\ InState("translating") = {})
    /\ <>[](/\ AllEnded
            /\ InState("new") = {} /\ InState("scraping") = {}
            /\ InState("scrapped") = {} /\ InState("translating") = {})

\* A runner has ended on a lost race while an article is still in new and
\* the runner that won the race is at work.
C26_Witness ==
    \E p, q \in Procs :
        /\ pc[p] = "idle"
        /\ pc[q] = "s_scrape"
        /\ claims[Held(q)].scrape = 1
        /\ InState("new") # {}

====
